---- MODULE Spec2Model ----
(***************************************************************************)
(* Chain Tracker (protocol/chaintracker, second half of                    *)
(* src/protocol/statetracker/payment_updater.go).                          *)
(*                                                                         *)
(* The tracker keeps a window (blocksQueue) of the blocksToSave newest     *)
(* (block, hash) records of a remote node.  One poll task bootstraps the   *)
(* window, then on every tick fetches the latest number, checks for a      *)
(* fork, repairs the window (splice or wholesale replace) and dispatches   *)
(* the callbacks.  Readers call GetLatestBlockData under the shared lock   *)
(* and GetLatestBlockNum without any lock.                                 *)
(*                                                                         *)
(* Go slices are 0-based; the sequences here are 1-based: blocksQueue[i]   *)
(* in Go is blocksQueue[i+1] below, and s[a:b] is SubSeq(s, a+1, b).       *)
(***************************************************************************)
EXTENDS Integers, Sequences, FiniteSets, TLC

\* ---------------------------------------------------------------- bounds
\* heights the remote can resolve are 0..MaxHeight
MaxHeight == 3
\* the configured window size blocksToSave ranges over 1..MaxBlocksToSave
MaxBlocksToSave == 3

\* a reader asks for the blocks latest-d .. latest, d in 0..MaxOffset
MaxOffset == 1

\* consecutive failed cycles are followed up to MaxFails
MaxFails == 12

\* ------------------------------------------------------ program constants
initRetriesCount == 4
\* durations are in milliseconds; 10 * time.Minute
BACKOFF_MAX_TIME == 600000
\* the values of config.AverageBlockTime: 1 second, 1 minute, 2 hours
BlockTimes == {1000, 60000, 7200000}

Heights == 0..MaxHeight
\* hashes are opaque and only compared for equality: two values suffice
Hashes == {"a", "b"}
\* value of newLatestBlock while no latest number has been fetched
NoBlock == -1

\* BlockStore{Block, Hash}; the Go zero value is {0, ""}
BlockStore(b, h) == [Block |-> b, Hash |-> h]
ZeroBlockStore == BlockStore(0, "")

VARIABLES
  \* ChainTracker fields
  blocksToSave, serverBlockMemory, latestBlockNum, blocksQueue,
  \* blockQueueMu: the tasks holding the shared lock, and the exclusive flag
  muReaders, muWriter,
  \* the remote node: the hash it reports for every height
  chain,
  \* the poll task: position and locals
  phase, pc, retries, newLatestBlock, gotNewBlock, forked, idx,
  newBlocksQueue, blocksQueueStartIndex, blocksQueueEndIndex,
  newQueueStartIndex, fapbErr, latestHash, cycleErr, calls,
  \* history: window and latest number when the cycle (or bootstrap) began,
  \* and since when the remote has not changed ("cycle", "repair", "no")
  \* and what the last repair did: "none", "scanning", "rejected",
  \* "aborted", "splice", "replace", and how many hashes it fetched
  preQueue, preLatest, stable, repairOp, repairFetches,
  \* the last block number passed to the new-block callback (after
  \* bootstrap: the latest number bootstrap ended with)
  notified,
  \* a reader task inside GetLatestBlockData
  rpc, rdFrom, rdTo, rdLatest, rdRecords, rdErr,
  \* start(): tickerTime and fetchFails, the period of cs.ticker, whether
  \* updateTicker has replaced the ticker of line 332, and whether the
  \* context handed to NewChainTracker has been cancelled
  tickerTime, fetchFails, tickerPeriod, tickerUpdated, cancelled

trackerVars == <<blocksToSave, serverBlockMemory, latestBlockNum, blocksQueue>>
muVars == <<muReaders, muWriter>>
scanVars == <<idx, newBlocksQueue, blocksQueueStartIndex, blocksQueueEndIndex,
              newQueueStartIndex>>
pollVars == <<phase, pc, retries, newLatestBlock, gotNewBlock, forked,
              scanVars, fapbErr, latestHash, cycleErr, calls>>
histVars == <<preQueue, preLatest, stable, repairOp, repairFetches>>
readerVars == <<rpc, rdFrom, rdTo, rdLatest, rdRecords, rdErr>>
schedVars == <<tickerTime, fetchFails, tickerPeriod, tickerUpdated, cancelled>>
vars == <<trackerVars, muVars, chain, pollVars, histVars, notified, readerVars,
          schedVars>>

\* ------------------------------------------------------------- helpers
Last(s) == s[Len(s)]

\* getLatestBlockUnsafe
getLatestBlockUnsafe(queue) ==
  IF Len(queue) = 0 THEN BlockStore(0, "BAD-HASH") ELSE Last(queue)

\* variant: the newest record is taken for the earliest
getEarliestBlockUnsafe_last(queue) == queue[Len(queue)]

\* getEarliestBlockUnsafe
getEarliestBlockUnsafe(queue) == queue[1]

\* fetchBlockHashByNum: the outcomes of one call.  The pre-rejection and a
\* failure of the remote are both errors; the remote resolves only Heights.
ErrOutcome == [ok |-> FALSE, hash |-> ""]

\* variant: the server's memory is left out of the comparison
tooEarlyBlock_noMemory(blockNum, latest, memory) == blockNum < latest

\* fetchBlockHashByNum: the pre-rejection ErrorFailedToFetchTooEarlyBlock
tooEarlyBlock(blockNum, latest, memory) == blockNum < latest - memory

fetchBlockHashByNum(blockNum) ==
  IF tooEarlyBlock(blockNum, latestBlockNum, serverBlockMemory)
    THEN {ErrOutcome}
    ELSE {ErrOutcome} \cup
         (IF blockNum \in Heights
            THEN {[ok |-> TRUE, hash |-> chain[blockNum]]} ELSE {})

\* fetchLatestBlockNum: the remote may report any height, or fail
fetchLatestBlockNum ==
  {[ok |-> FALSE, num |-> NoBlock]} \cup {[ok |-> TRUE, num |-> n] : n \in Heights}

\* no overlap: the zero indexes every non-matching path returns
NoOverlap == [found |-> FALSE, start |-> 0, end |-> 0, newStart |-> 0]
\* variant: the hashes are not compared, any retained record is an anchor
hashesOverlapIndexes_anyHash(queue, bts, readIndexDiff, newQueueIdx, fetchedBlockNum, newHashForBlock) ==
  LET savedBlocks == Len(queue)
      blocksQueueIdx == savedBlocks - 1 + readIndexDiff - newQueueIdx
      overwriteElements == blocksQueueIdx + 1
  IN IF /\ readIndexDiff < savedBlocks
        /\ blocksQueueIdx > 0 /\ blocksQueueIdx <= savedBlocks - 1
        /\ queue[blocksQueueIdx + 1].Block = fetchedBlockNum
       THEN [found |-> TRUE, start |-> readIndexDiff, end |-> overwriteElements,
             newStart |-> overwriteElements - readIndexDiff]
       ELSE NoOverlap

\* variant: overwriteElements misses its + 1, the anchor record is dropped
hashesOverlapIndexes_dropAnchor(queue, bts, readIndexDiff, newQueueIdx, fetchedBlockNum, newHashForBlock) ==
  LET savedBlocks == Len(queue)
      blocksQueueIdx == savedBlocks - 1 + readIndexDiff - newQueueIdx
      overwriteElements == blocksQueueIdx
  IN IF /\ readIndexDiff < savedBlocks
        /\ blocksQueueIdx > 0 /\ blocksQueueIdx <= savedBlocks - 1
        /\ queue[blocksQueueIdx + 1].Block = fetchedBlockNum
        /\ queue[blocksQueueIdx + 1].Hash = newHashForBlock
        /\ readIndexDiff <= overwriteElements
       THEN [found |-> TRUE, start |-> readIndexDiff, end |-> overwriteElements,
             newStart |-> overwriteElements - readIndexDiff]
       ELSE NoOverlap

\* variant: the newest retained record is never an anchor
hashesOverlapIndexes_skipTip(queue, bts, readIndexDiff, newQueueIdx, fetchedBlockNum, newHashForBlock) ==
  LET savedBlocks == Len(queue)
      blocksQueueIdx == savedBlocks - 1 + readIndexDiff - newQueueIdx
      overwriteElements == blocksQueueIdx + 1
  IN IF /\ readIndexDiff < savedBlocks
        /\ blocksQueueIdx > 0 /\ blocksQueueIdx < savedBlocks - 1
        /\ queue[blocksQueueIdx + 1].Block = fetchedBlockNum
        /\ queue[blocksQueueIdx + 1].Hash = newHashForBlock
       THEN [found |-> TRUE, start |-> readIndexDiff, end |-> overwriteElements,
             newStart |-> overwriteElements - readIndexDiff]
       ELSE NoOverlap

\* variant: the oldest retained record, index 0, can be the anchor
hashesOverlapIndexes_fromZero(queue, bts, readIndexDiff, newQueueIdx, fetchedBlockNum, newHashForBlock) ==
  LET savedBlocks == Len(queue)
      blocksQueueEnd == savedBlocks - 1 + readIndexDiff
      blocksQueueIdx == blocksQueueEnd - newQueueIdx
  IN IF readIndexDiff >= savedBlocks THEN NoOverlap
     ELSE IF blocksQueueIdx >= 0 /\ blocksQueueIdx <= savedBlocks - 1
       THEN LET existingBlockStore == queue[blocksQueueIdx + 1]
                overwriteElements == blocksQueueIdx + 1
            IN IF existingBlockStore.Block # fetchedBlockNum THEN NoOverlap
               ELSE IF existingBlockStore.Hash = newHashForBlock
                 THEN IF \/ overwriteElements < bts - 1 - newQueueIdx
                         \/ readIndexDiff > overwriteElements
                        THEN NoOverlap
                        ELSE [found |-> TRUE, start |-> readIndexDiff,
                              end |-> overwriteElements,
                              newStart |-> overwriteElements - readIndexDiff]
                 ELSE NoOverlap
       ELSE NoOverlap

\* hashesOverlapIndexes
hashesOverlapIndexes(queue, bts, readIndexDiff, newQueueIdx, fetchedBlockNum, newHashForBlock) ==
  LET savedBlocks == Len(queue)
      blocksQueueEnd == savedBlocks - 1 + readIndexDiff
      blocksQueueIdx == blocksQueueEnd - newQueueIdx
  IN IF readIndexDiff >= savedBlocks THEN NoOverlap
     ELSE IF blocksQueueIdx > 0 /\ blocksQueueIdx <= savedBlocks - 1
       THEN LET existingBlockStore == queue[blocksQueueIdx + 1]
                overwriteElements == blocksQueueIdx + 1
            IN IF existingBlockStore.Block # fetchedBlockNum THEN NoOverlap
               ELSE IF existingBlockStore.Hash = newHashForBlock
                 THEN IF \/ overwriteElements < bts - 1 - newQueueIdx
                         \/ readIndexDiff > overwriteElements
                        THEN NoOverlap
                        ELSE [found |-> TRUE, start |-> readIndexDiff,
                              end |-> overwriteElements,
                              newStart |-> overwriteElements - readIndexDiff]
                 ELSE NoOverlap
       ELSE NoOverlap

\* variant: the end of the queue is taken one place too far
overlapAlarm_endOffByOne(queue, bts, readIndexDiff, newQueueIdx, fetchedBlockNum, newHashForBlock) ==
  LET savedBlocks == Len(queue)
      blocksQueueEnd == savedBlocks + readIndexDiff
      blocksQueueIdx == blocksQueueEnd - newQueueIdx
  IN IF readIndexDiff >= savedBlocks THEN "none"
     ELSE IF blocksQueueIdx > 0 /\ blocksQueueIdx <= savedBlocks - 1
       THEN LET existingBlockStore == queue[blocksQueueIdx + 1]
                overwriteElements == blocksQueueIdx + 1
            IN IF existingBlockStore.Block # fetchedBlockNum
                 THEN "mismatching index"
               ELSE IF existingBlockStore.Hash = newHashForBlock
                 THEN IF \/ overwriteElements < bts - 1 - newQueueIdx
                         \/ readIndexDiff > overwriteElements
                        THEN "not enough blocks"
                        ELSE "none"
                 ELSE "none"
       ELSE "none"

\* hashesOverlapIndexes: which of its two LavaFormatError branches a call
\* takes, the sanity check of the block number or the splice policy
overlapAlarm(queue, bts, readIndexDiff, newQueueIdx, fetchedBlockNum, newHashForBlock) ==
  LET savedBlocks == Len(queue)
      blocksQueueEnd == savedBlocks - 1 + readIndexDiff
      blocksQueueIdx == blocksQueueEnd - newQueueIdx
  IN IF readIndexDiff >= savedBlocks THEN "none"
     ELSE IF blocksQueueIdx > 0 /\ blocksQueueIdx <= savedBlocks - 1
       THEN LET existingBlockStore == queue[blocksQueueIdx + 1]
                overwriteElements == blocksQueueIdx + 1
            IN IF existingBlockStore.Block # fetchedBlockNum
                 THEN "mismatching index"
               ELSE IF existingBlockStore.Hash = newHashForBlock
                 THEN IF \/ overwriteElements < bts - 1 - newQueueIdx
                         \/ readIndexDiff > overwriteElements
                        THEN "not enough blocks"
                        ELSE "none"
                 ELSE "none"
       ELSE "none"

\* variant: the splice keeps the retained records from index 0
replacedQueue_keepFromZero(queue, newQueue, nStart, qStart, qEnd) ==
  IF nStart > 0
    THEN SubSeq(queue, 1, qEnd) \o SubSeq(newQueue, nStart + 1, Len(newQueue))
    ELSE newQueue

\* the assignment of replaceBlocksQueue: splice or wholesale replace
replacedQueue(queue, newQueue, nStart, qStart, qEnd) ==
  IF nStart > 0
    THEN SubSeq(queue, qStart + 1, qEnd) \o SubSeq(newQueue, nStart + 1, Len(newQueue))
    ELSE newQueue

\* the callbacks of one cycle, in the order the code invokes them
NewCall(b, h) == [kind |-> "new", block |-> b, hash |-> h]
ForkCall(b) == [kind |-> "fork", block |-> b, hash |-> ""]
newLatestCallbackSet == TRUE
forkCallbackSet == TRUE
\* variant: the loop starts at prev_latest instead of prev_latest + 1
dispatched_fromPrev(got, frk, prev, newLatest, hash) ==
  (IF got /\ newLatestCallbackSet /\ newLatest > prev
     THEN [i \in 1..(newLatest - prev + 1) |-> NewCall(prev + i - 1, hash)] ELSE <<>>)
  \o (IF frk /\ forkCallbackSet THEN <<ForkCall(newLatest)>> ELSE <<>>)

\* variant: the fork callback is invoked before the new-block callbacks
dispatched_forkFirst(got, frk, prev, newLatest, hash) ==
  (IF frk /\ forkCallbackSet THEN <<ForkCall(newLatest)>> ELSE <<>>)
  \o (IF got /\ newLatestCallbackSet /\ newLatest > prev
        THEN [i \in 1..(newLatest - prev) |-> NewCall(prev + i, hash)] ELSE <<>>)

\* variant: on a catch-up only the newest block is passed on
dispatched_onlyLast(got, frk, prev, newLatest, hash) ==
  (IF got /\ newLatestCallbackSet /\ newLatest > prev
     THEN <<NewCall(newLatest, hash)>> ELSE <<>>)
  \o (IF frk /\ forkCallbackSet THEN <<ForkCall(newLatest)>> ELSE <<>>)

dispatched(got, frk, prev, newLatest, hash) ==
  (IF got /\ newLatestCallbackSet /\ newLatest > prev
     THEN [i \in 1..(newLatest - prev) |-> NewCall(prev + i, hash)] ELSE <<>>)
  \o (IF frk /\ forkCallbackSet THEN <<ForkCall(newLatest)>> ELSE <<>>)

\* sentinels of the range API: NOT_APPLICABLE, and "latest minus d"
NOT_APPLICABLE == -1
LatestMinus(d) == -2 - d
LatestArgToBlockNum(arg, latest) == IF arg <= -2 THEN latest - (-2 - arg) ELSE arg

\* WantedBlocksData.New: resolve the request against latest and earliest
\* and validate it
WantedBlocksDataNew(fromBlock, toBlock, specificBlock, latest, earliest) ==
  LET ignoreRange == fromBlock = NOT_APPLICABLE \/ toBlock = NOT_APPLICABLE
      ignoreSpecific == specificBlock = NOT_APPLICABLE
      from == LatestArgToBlockNum(fromBlock, latest)
      to == LatestArgToBlockNum(toBlock, latest)
      specific == LatestArgToBlockNum(specificBlock, latest)
      InRange(b) == earliest <= b /\ b <= latest
  IN [err |-> \/ earliest > latest
              \/ ignoreRange /\ ignoreSpecific
              \/ ~ignoreRange /\ (from > to \/ ~InRange(from) \/ ~InRange(to))
              \/ ~ignoreSpecific /\ ~InRange(specific),
      useRange |-> ~ignoreRange, from |-> from, to |-> to,
      useSpecific |-> ~ignoreSpecific, specific |-> specific,
      earliest |-> earliest]

\* WantedBlocksData.IterationIndexes: 0-based indexes into blocksQueue,
\* ascending, the specific block merged in without repetition
IterationIndexes(w) ==
  LET range == IF w.useRange /\ w.from <= w.to
                 THEN [i \in 1..(w.to - w.from + 1) |-> w.from + i - 1] ELSE <<>>
      inRange == w.useRange /\ w.from <= w.specific /\ w.specific <= w.to
      blocks == IF ~w.useSpecific \/ inRange THEN range
                ELSE IF w.useRange /\ w.specific < w.from THEN <<w.specific>> \o range
                ELSE range \o <<w.specific>>
  IN [i \in 1..Len(blocks) |-> blocks[i] - w.earliest]

\* WantedBlocksData.IsWanted
IsWanted(w, block) ==
  \/ w.useRange /\ w.from <= block /\ block <= w.to
  \/ w.useSpecific /\ block = w.specific

\* the requests a reader makes: <<fromBlock, toBlock, specificBlock>>
Requests == {<<LatestMinus(d), LatestMinus(0), NOT_APPLICABLE>> : d \in 0..MaxOffset}

\* the requests for one block by its number: <<b, b, NOT_APPLICABLE>>
ExactRequests == {<<b, b, NOT_APPLICABLE>> : b \in Heights}

\* ---------------------------------------------------------------- Init
\* NewChainTracker: the struct literal, before start() runs
InitWith(windowSizes, memoryExtras, chains, blockTimes) ==
  /\ blocksToSave \in windowSizes
  /\ \E e \in memoryExtras : serverBlockMemory = blocksToSave + e
  /\ serverBlockMemory >= 0
  /\ latestBlockNum = 0
  /\ blocksQueue = <<>>
  /\ muReaders = {}
  /\ muWriter = FALSE
  /\ chain \in chains
  /\ phase = "init"
  /\ pc = "init_latest"
  /\ retries = 0
  /\ newLatestBlock = NoBlock
  /\ gotNewBlock = FALSE
  /\ forked = FALSE
  /\ idx = 0
  /\ newBlocksQueue = <<>>
  /\ blocksQueueStartIndex = 0
  /\ blocksQueueEndIndex = 0
  /\ newQueueStartIndex = 0
  /\ fapbErr = FALSE
  /\ latestHash = ""
  /\ cycleErr = FALSE
  /\ calls = <<>>
  /\ preQueue = <<>>
  /\ preLatest = 0
  /\ stable = "no"
  /\ repairOp = "none"
  /\ repairFetches = 0
  /\ rpc = "idle"
  /\ rdFrom = 0
  /\ rdTo = 0
  /\ rdLatest = 0
  /\ rdRecords = <<>>
  /\ rdErr = FALSE
  /\ notified = 0
  /\ \E t \in blockTimes : tickerTime = t \div 10
  /\ fetchFails = 0
  /\ tickerPeriod = tickerTime
  /\ tickerUpdated = FALSE
  /\ cancelled = FALSE

\* every window size and every remote, one block time
Init == InitWith(1..MaxBlocksToSave, {0}, [Heights -> Hashes], {1000})

\* every block time, a window of one record and one remote
InitSched == InitWith({1}, {0}, {[h \in Heights |-> "a"]}, BlockTimes)

\* every window size with a server memory two below it, equal to it and
\* one above it
InitMemory == InitWith(1..MaxBlocksToSave, {-2, 0, 1}, [Heights -> Hashes], {1000})

\* ------------------------------------------------------------ the remote
\* the remote changes the hash it reports for one height
RemoteSetHash ==
  /\ pc # "failed"
  /\ \E h \in Heights, v \in Hashes :
       /\ v # chain[h]
       /\ chain' = [chain EXCEPT ![h] = v]
  /\ stable' = "no"
  /\ UNCHANGED <<trackerVars, muVars, pollVars, preQueue, preLatest, repairOp,
                 repairFetches, readerVars>>
  /\ UNCHANGED <<notified, schedVars>>

\* ---------------------------------------------------- bootstrap, stage 1
\* variant: the retry loop runs once more than initRetriesCount
InitFetchLatest_extraRetry ==
  /\ pc = "init_latest"
  /\ \E r \in fetchLatestBlockNum :
       IF r.ok
         THEN /\ newLatestBlock' = r.num
              /\ retries' = 0
              /\ pc' = "fapb"
         ELSE /\ newLatestBlock' = newLatestBlock
              /\ IF retries <= initRetriesCount
                   THEN retries' = retries + 1 /\ pc' = "init_latest"
                   ELSE retries' = retries /\ pc' = "failed"
  /\ UNCHANGED <<trackerVars, muVars, chain, phase, gotNewBlock, forked, scanVars,
                 fapbErr, latestHash, cycleErr, calls, histVars, readerVars>>
  /\ UNCHANGED <<notified, schedVars>>

\* fetchInitDataWithRetry: fetchLatestBlockNum, one attempt plus retries
InitFetchLatest ==
  /\ pc = "init_latest"
  /\ \E r \in fetchLatestBlockNum :
       IF r.ok
         THEN /\ newLatestBlock' = r.num
              /\ retries' = 0
              /\ pc' = "fapb"
         ELSE /\ newLatestBlock' = newLatestBlock
              /\ IF retries < initRetriesCount
                   THEN retries' = retries + 1 /\ pc' = "init_latest"
                   ELSE retries' = retries /\ pc' = "failed"
  /\ UNCHANGED <<trackerVars, muVars, chain, phase, gotNewBlock, forked, scanVars,
                 fapbErr, latestHash, cycleErr, calls, histVars, readerVars>>
  /\ UNCHANGED <<notified, schedVars>>

\* ------------------------------------------------ fetchAllPreviousBlocks
\* sync.RWMutex: Lock waits for the writer and for every reader, RLock
\* for the writer only
\* variant: Lock does not wait for the readers
CanLock_ignoreReaders == ~muWriter

CanLock == ~muWriter /\ muReaders = {}
CanRLock == ~muWriter

\* variant: an older latestBlock is not rejected
olderThanCurrent_never(latestBlock, currentLatestBlock) == FALSE

\* the test of fetchAllPreviousBlocks that rejects an older latestBlock
olderThanCurrent(latestBlock, currentLatestBlock) == latestBlock < currentLatestBlock

\* entry: allocate the candidate array, reject an older latestBlock,
\* else enter readHashes and take the shared lock
FetchAllPreviousBlocks ==
  /\ pc = "fapb"
  /\ newBlocksQueue' = IF olderThanCurrent(newLatestBlock, latestBlockNum) THEN <<>>
                       ELSE [i \in 1..blocksToSave |-> ZeroBlockStore]
  /\ idx' = 0
  /\ blocksQueueStartIndex' = 0
  /\ blocksQueueEndIndex' = 0
  /\ newQueueStartIndex' = 0
  /\ stable' = IF stable = "cycle" THEN "cycle" ELSE "repair"
  /\ repairFetches' = 0
  /\ repairOp' = IF olderThanCurrent(newLatestBlock, latestBlockNum)
                   THEN "rejected" ELSE "scanning"
  /\ IF olderThanCurrent(newLatestBlock, latestBlockNum)
       THEN /\ fapbErr' = TRUE
            /\ pc' = "fapb_ret"
            /\ UNCHANGED muVars
       ELSE /\ CanRLock
            /\ muReaders' = muReaders \cup {"poll"}
            /\ fapbErr' = FALSE
            /\ pc' = "readHashes"
            /\ UNCHANGED muWriter
  /\ UNCHANGED <<trackerVars, chain, phase, retries, newLatestBlock, gotNewBlock,
                 forked, latestHash, cycleErr, calls, preQueue, preLatest, readerVars>>
  /\ UNCHANGED <<notified, schedVars>>

\* the locals of the scan go out of scope
ScanDropped ==
  /\ idx' = 0
  /\ newBlocksQueue' = <<>>
  /\ blocksQueueStartIndex' = 0
  /\ blocksQueueEndIndex' = 0
  /\ newQueueStartIndex' = 0

\* variant: a failed fetch ends the scan and the candidate array, filled
\* as far as the scan got, goes on to replaceBlocksQueue
ReadHashesErr_install ==
  /\ pc = "readHashes"
  /\ ErrOutcome \in fetchBlockHashByNum(newLatestBlock - idx)
  /\ muReaders' = muReaders \ {"poll"}
  /\ blocksQueueStartIndex' = 0
  /\ blocksQueueEndIndex' = 0
  /\ newQueueStartIndex' = 0
  /\ pc' = "replace"
  /\ UNCHANGED <<trackerVars, muWriter, chain, phase, retries, newLatestBlock,
                 gotNewBlock, forked, idx, newBlocksQueue, fapbErr, latestHash,
                 cycleErr, calls, histVars, readerVars>>
  /\ UNCHANGED <<notified, schedVars>>

\* readHashes, one iteration whose fetch fails: return the error
\* (the deferred RUnlock runs); the candidate array is dropped
ReadHashesErr ==
  /\ pc = "readHashes"
  /\ ErrOutcome \in fetchBlockHashByNum(newLatestBlock - idx)
  /\ muReaders' = muReaders \ {"poll"}
  /\ fapbErr' = TRUE
  /\ pc' = "fapb_ret"
  /\ ScanDropped
  /\ repairOp' = "aborted"
  /\ UNCHANGED <<trackerVars, muWriter, chain, phase, retries, newLatestBlock,
                 gotNewBlock, forked, latestHash, cycleErr, calls,
                 preQueue, preLatest, stable, repairFetches, readerVars>>
  /\ UNCHANGED <<notified, schedVars>>

\* readHashes, one iteration whose fetch succeeds
ReadHashesOk ==
  /\ pc = "readHashes"
  /\ LET blockNumToFetch == newLatestBlock - idx
         readIndexDiff == newLatestBlock - latestBlockNum
     IN \E r \in fetchBlockHashByNum(blockNumToFetch) :
          /\ r.ok
          /\ LET o == hashesOverlapIndexes(blocksQueue, blocksToSave, readIndexDiff,
                                           idx, blockNumToFetch, r.hash)
             IN /\ blocksQueueStartIndex' = o.start
                /\ blocksQueueEndIndex' = o.end
                /\ newQueueStartIndex' = o.newStart
                /\ IF o.found
                     THEN /\ UNCHANGED <<newBlocksQueue, idx>>
                          /\ muReaders' = muReaders \ {"poll"}
                          /\ pc' = "replace"
                     ELSE /\ newBlocksQueue' =
                               [newBlocksQueue EXCEPT ![blocksToSave - idx] =
                                  BlockStore(blockNumToFetch, r.hash)]
                          /\ idx' = idx + 1
                          /\ IF idx + 1 < blocksToSave
                               THEN UNCHANGED <<muReaders, pc>>
                               ELSE /\ muReaders' = muReaders \ {"poll"}
                                    /\ pc' = "replace"
  /\ repairFetches' = repairFetches + 1
  /\ UNCHANGED <<trackerVars, muWriter, chain, phase, retries, newLatestBlock,
                 gotNewBlock, forked, fapbErr, latestHash, cycleErr, calls,
                 preQueue, preLatest, stable, repairOp, readerVars>>
  /\ UNCHANGED <<notified, schedVars>>

\* variant: setLatestBlockNum is missing
ReplaceBegin_noSetLatest ==
  /\ pc = "replace"
  /\ CanLock
  /\ muWriter' = TRUE
  /\ pc' = "replacing"
  /\ UNCHANGED <<trackerVars, muReaders, chain, phase, retries, newLatestBlock,
                 gotNewBlock, forked, scanVars, fapbErr, latestHash, cycleErr,
                 calls, histVars, readerVars>>
  /\ UNCHANGED <<notified, schedVars>>

\* replaceBlocksQueue: Lock, then setLatestBlockNum
ReplaceBegin ==
  /\ pc = "replace"
  /\ CanLock
  /\ muWriter' = TRUE
  /\ latestBlockNum' = newLatestBlock
  /\ pc' = "replacing"
  /\ UNCHANGED <<blocksToSave, serverBlockMemory, blocksQueue, muReaders, chain,
                 phase, retries, newLatestBlock, gotNewBlock, forked, scanVars,
                 fapbErr, latestHash, cycleErr, calls, histVars, readerVars>>
  /\ UNCHANGED <<notified, schedVars>>

\* variant: replaceBlocksQueue returns without the Unlock
ReplaceEnd_noUnlock ==
  /\ pc = "replacing"
  /\ LET q == replacedQueue(blocksQueue, newBlocksQueue, newQueueStartIndex,
                            blocksQueueStartIndex, blocksQueueEndIndex)
     IN /\ blocksQueue' = q
        /\ latestHash' = getLatestBlockUnsafe(q).Hash
        /\ fapbErr' = (Len(q) < blocksToSave)
  /\ muWriter' = muWriter
  /\ pc' = "fapb_ret"
  /\ ScanDropped
  /\ repairOp' = IF newQueueStartIndex > 0 THEN "splice" ELSE "replace"
  /\ UNCHANGED <<blocksToSave, serverBlockMemory, latestBlockNum, muReaders, chain,
                 phase, retries, newLatestBlock, gotNewBlock, forked,
                 cycleErr, calls, preQueue, preLatest, stable, repairFetches,
                 readerVars>>
  /\ UNCHANGED <<notified, schedVars>>

\* replaceBlocksQueue: the assignment of blocksQueue, the return values,
\* the deferred Unlock; then the length check of fetchAllPreviousBlocks
ReplaceEnd ==
  /\ pc = "replacing"
  /\ LET q == replacedQueue(blocksQueue, newBlocksQueue, newQueueStartIndex,
                            blocksQueueStartIndex, blocksQueueEndIndex)
     IN /\ blocksQueue' = q
        /\ latestHash' = getLatestBlockUnsafe(q).Hash
        /\ fapbErr' = (Len(q) < blocksToSave)
  /\ muWriter' = FALSE
  /\ pc' = "fapb_ret"
  /\ ScanDropped
  /\ repairOp' = IF newQueueStartIndex > 0 THEN "splice" ELSE "replace"
  /\ UNCHANGED <<blocksToSave, serverBlockMemory, latestBlockNum, muReaders, chain,
                 phase, retries, newLatestBlock, gotNewBlock, forked,
                 cycleErr, calls, preQueue, preLatest, stable, repairFetches,
                 readerVars>>
  /\ UNCHANGED <<notified, schedVars>>

\* ---------------------------------------------------- bootstrap, stage 2
\* fetchInitDataWithRetry: fetchAllPreviousBlocks returned
InitRepairDone ==
  /\ pc = "fapb_ret" /\ phase = "init"
  /\ IF ~fapbErr
       THEN \* start() launches the poll task
            /\ phase' = "poll"
            /\ pc' = "tick"
            /\ retries' = 0
            /\ newLatestBlock' = NoBlock
            /\ latestHash' = ""
            /\ fapbErr' = FALSE
            /\ repairOp' = "none"
            /\ repairFetches' = 0
       ELSE /\ IF retries < initRetriesCount
                 THEN retries' = retries + 1 /\ pc' = "fapb"
                 ELSE retries' = retries /\ pc' = "failed"
            /\ UNCHANGED <<phase, newLatestBlock, latestHash, fapbErr, repairOp,
                           repairFetches>>
  /\ UNCHANGED scanVars
  /\ stable' = "no"
  /\ UNCHANGED <<trackerVars, muVars, chain, gotNewBlock, forked, cycleErr, calls,
                 preQueue, preLatest, readerVars>>
  /\ notified' = IF ~fapbErr THEN latestBlockNum ELSE notified
  /\ UNCHANGED schedVars

\* ------------------------------------- fetchAllPreviousBlocksIfNecessary
\* a tick: fetchLatestBlockNum, then gotNewBlock
PollFetchLatest ==
  /\ pc = "tick"
  /\ preQueue' = blocksQueue
  /\ preLatest' = latestBlockNum
  /\ stable' = "cycle"
  /\ \E r \in fetchLatestBlockNum :
       IF r.ok
         THEN /\ newLatestBlock' = r.num
              /\ gotNewBlock' = (r.num > latestBlockNum)
              /\ pc' = "forkcheck"
              /\ cycleErr' = FALSE
         ELSE /\ pc' = "end"
              /\ cycleErr' = TRUE
              /\ UNCHANGED <<newLatestBlock, gotNewBlock>>
  /\ UNCHANGED <<trackerVars, muVars, chain, phase, retries, forked, scanVars,
                 fapbErr, latestHash, calls, repairOp, repairFetches, readerVars>>
  /\ UNCHANGED <<notified, schedVars>>

\* the comparison of forkChanged: the saved hash against the fetched one
hashChanged(savedHash, fetchedHash) == savedHash # fetchedHash

\* variant: the hash of the new latest block is fetched in both branches
forkCheckBlockNum_newLatest(newLatest, current, latestBlockSaved) == newLatest

\* forkChanged: the block number whose hash is fetched
forkCheckBlockNum(newLatest, current, latestBlockSaved) ==
  IF newLatest = current THEN newLatest ELSE latestBlockSaved.Block

\* forkChanged: both branches compare the remote hash of the block number
\* of the saved latest record with the saved hash
ForkChanged ==
  /\ pc = "forkcheck"
  /\ LET latestBlockSaved == getLatestBlockUnsafe(blocksQueue)
         blockNum == forkCheckBlockNum(newLatestBlock, latestBlockNum, latestBlockSaved)
     IN \E r \in fetchBlockHashByNum(blockNum) :
          IF r.ok
            THEN LET f == hashChanged(latestBlockSaved.Hash, r.hash)
                 IN /\ forked' = f
                    /\ cycleErr' = FALSE
                    /\ pc' = IF gotNewBlock \/ f THEN "fapb" ELSE "end"
            ELSE /\ forked' = FALSE
                 /\ cycleErr' = TRUE
                 /\ pc' = "end"
  /\ UNCHANGED <<trackerVars, muVars, chain, phase, retries, newLatestBlock,
                 gotNewBlock, scanVars, fapbErr, latestHash, calls, histVars,
                 readerVars>>
  /\ UNCHANGED <<notified, schedVars>>

\* variant: the callbacks are invoked also when the repair returned an error
Dispatch_ignoreErr ==
  /\ pc = "fapb_ret" /\ phase = "poll"
  /\ cycleErr' = fapbErr
  /\ calls' = dispatched(gotNewBlock, forked, preLatest, newLatestBlock, latestHash)
  /\ pc' = "end"
  /\ UNCHANGED <<trackerVars, muVars, chain, phase, retries, newLatestBlock,
                 gotNewBlock, forked, scanVars, fapbErr, latestHash, histVars, readerVars>>
  /\ UNCHANGED <<notified, schedVars>>

\* fetchAllPreviousBlocks returned to the poll cycle: the callbacks
Dispatch ==
  /\ pc = "fapb_ret" /\ phase = "poll"
  /\ cycleErr' = fapbErr
  /\ calls' = IF fapbErr THEN <<>>
              ELSE dispatched(gotNewBlock, forked, preLatest, newLatestBlock, latestHash)
  /\ pc' = "end"
  /\ UNCHANGED <<trackerVars, muVars, chain, phase, retries, newLatestBlock,
                 gotNewBlock, forked, scanVars, fapbErr, latestHash, histVars,
                 readerVars>>
  /\ UNCHANGED <<notified, schedVars>>

\* the block numbers passed to the new-block callback, in call order
newBlockNumbers(cs) ==
  LET news == SelectSeq(cs, LAMBDA c : c.kind = "new")
  IN [i \in 1..Len(news) |-> news[i].block]

\* start(): fetchAllPreviousBlocksIfNecessary has returned to the loop; its
\* locals go out of scope and the task waits for the next tick
CycleReturned ==
  /\ pc = "end"
  /\ pc' = "tick"
  /\ newLatestBlock' = NoBlock
  /\ gotNewBlock' = FALSE
  /\ forked' = FALSE
  /\ fapbErr' = FALSE
  /\ latestHash' = ""
  /\ cycleErr' = FALSE
  /\ calls' = <<>>
  /\ preQueue' = <<>>
  /\ preLatest' = 0
  /\ stable' = "no"
  /\ repairOp' = "none"
  /\ repairFetches' = 0
  /\ notified' = IF newBlockNumbers(calls) = <<>> THEN notified
                 ELSE Last(newBlockNumbers(calls))
  /\ UNCHANGED <<trackerVars, muVars, chain, phase, retries, scanVars, readerVars>>

\* the end of a cycle as the tracker's state sees it: the failure counter
\* and the ticker are not followed
PollEnd ==
  /\ CycleReturned
  /\ UNCHANGED schedVars

\* variant: the shift is not limited to 10 places
exponentialBackoff_noFailsCap(baseTime, fails) ==
  LET backoff == baseTime * (2 ^ fails)
  IN IF backoff > BACKOFF_MAX_TIME THEN BACKOFF_MAX_TIME ELSE backoff

\* exponentialBackoff; 1 << fails is 2 ^ fails
exponentialBackoff(baseTime, fails) ==
  LET capped == IF fails > 10 THEN 10 ELSE fails
      backoff == baseTime * (2 ^ capped)
  IN IF backoff > BACKOFF_MAX_TIME THEN BACKOFF_MAX_TIME ELSE backoff

\* updateTicker: the ticker is replaced by one of the backoff period
updateTicker(tickerBaseTime, fails) ==
  /\ tickerPeriod' = exponentialBackoff(tickerBaseTime, fails)
  /\ tickerUpdated' = TRUE

\* the end of a cycle with the loop's bookkeeping: a failure is counted and
\* backs the ticker off, a success after failures resets both
TickResult ==
  /\ CycleReturned
  /\ IF cycleErr
       THEN /\ fetchFails < MaxFails
            /\ fetchFails' = fetchFails + 1
            /\ updateTicker(tickerTime, fetchFails + 1)
       ELSE /\ IF fetchFails # 0
                 THEN updateTicker(tickerTime, 0)
                 ELSE UNCHANGED <<tickerPeriod, tickerUpdated>>
            /\ fetchFails' = 0
  /\ UNCHANGED <<tickerTime, cancelled>>

\* the context handed to NewChainTracker is cancelled
Cancel ==
  /\ phase = "poll"
  /\ ~cancelled
  /\ cancelled' = TRUE
  /\ UNCHANGED <<trackerVars, muVars, chain, pollVars, histVars, notified,
                 readerVars, tickerTime, fetchFails, tickerPeriod, tickerUpdated>>

\* cs.quit is the nil channel of the struct literal of NewChainTracker and
\* no statement assigns it, sends on it or closes it: a receive from it is
\* never ready
quitReady == FALSE

\* case <-cs.quit: stop the ticker and return
QuitCase ==
  /\ quitReady
  /\ phase = "poll" /\ pc = "tick"
  /\ pc' = "exited"
  /\ UNCHANGED <<trackerVars, muVars, chain, phase, retries, newLatestBlock,
                 gotNewBlock, forked, scanVars, fapbErr, latestHash, cycleErr,
                 calls, histVars, notified, readerVars, schedVars>>

\* ---------------------------------------------------- GetLatestBlockData
\* RLock, then latestBlock = GetLatestBlockNum()
ReaderBegin ==
  /\ rpc = "idle" /\ phase = "poll"
  /\ CanRLock
  /\ muReaders' = muReaders \cup {"reader"}
  /\ rdLatest' = latestBlockNum
  /\ rpc' = "locked"
  /\ UNCHANGED <<trackerVars, muWriter, chain, pollVars, histVars, rdFrom, rdTo,
                 rdRecords, rdErr>>
  /\ UNCHANGED <<notified, schedVars>>

\* the emptiness check, WantedBlocksData.New and the copy loop, for the
\* arguments of this call; the lock is still held
copyRecords(req) ==
  /\ rdFrom' = req[1]
  /\ rdTo' = req[2]
  /\ IF Len(blocksQueue) = 0
       THEN rdErr' = TRUE /\ rdRecords' = <<>>
       ELSE LET w == WantedBlocksDataNew(req[1], req[2], req[3], rdLatest,
                                         getEarliestBlockUnsafe(blocksQueue).Block)
                ixs == IterationIndexes(w)
                bad == \E i \in 1..Len(ixs) :
                         \/ ixs[i] < 0 \/ ixs[i] >= Len(blocksQueue)
                         \/ ~IsWanted(w, blocksQueue[ixs[i] + 1].Block)
            IN IF w.err \/ bad
                 THEN rdErr' = TRUE /\ rdRecords' = <<>>
                 ELSE /\ rdErr' = FALSE
                      /\ rdRecords' = [i \in 1..Len(ixs) |-> blocksQueue[ixs[i] + 1]]

\* a call with a range relative to the latest block
ReaderCopy ==
  /\ rpc = "locked"
  /\ \E req \in Requests : copyRecords(req)
  /\ rpc' = "copied"
  /\ UNCHANGED <<trackerVars, muVars, chain, pollVars, histVars, rdLatest>>
  /\ UNCHANGED <<notified, schedVars>>

\* a call for one block by its number
ReaderCopyExact ==
  /\ rpc = "locked"
  /\ \E req \in ExactRequests : copyRecords(req)
  /\ rpc' = "copied"
  /\ UNCHANGED <<trackerVars, muVars, chain, pollVars, histVars, rdLatest>>
  /\ UNCHANGED <<notified, schedVars>>

\* the deferred RUnlock and the return to the caller
ReaderReturn ==
  /\ rpc = "copied"
  /\ muReaders' = muReaders \ {"reader"}
  /\ rpc' = "idle"
  /\ rdFrom' = 0
  /\ rdTo' = 0
  /\ rdLatest' = 0
  /\ rdRecords' = <<>>
  /\ rdErr' = FALSE
  /\ UNCHANGED <<trackerVars, muWriter, chain, pollVars, histVars>>
  /\ UNCHANGED <<notified, schedVars>>

Next ==
  \/ RemoteSetHash
  \/ InitFetchLatest
  \/ FetchAllPreviousBlocks
  \/ ReadHashesErr
  \/ ReadHashesOk
  \/ ReplaceBegin
  \/ ReplaceEnd
  \/ InitRepairDone
  \/ PollFetchLatest
  \/ ForkChanged
  \/ Dispatch
  \/ PollEnd
  \/ ReaderBegin
  \/ ReaderCopy
  \/ ReaderReturn

Spec == Init /\ [][Next]_vars

\* the same system, its reader asking for single blocks by number
NextRange ==
  \/ RemoteSetHash
  \/ InitFetchLatest
  \/ FetchAllPreviousBlocks
  \/ ReadHashesErr
  \/ ReadHashesOk
  \/ ReplaceBegin
  \/ ReplaceEnd
  \/ InitRepairDone
  \/ PollFetchLatest
  \/ ForkChanged
  \/ Dispatch
  \/ PollEnd
  \/ ReaderBegin
  \/ ReaderCopyExact
  \/ ReaderReturn

SpecRange == Init /\ [][NextRange]_vars

\* the poll task and the remote, without readers, for every server memory
NextMemory ==
  \/ RemoteSetHash
  \/ InitFetchLatest
  \/ FetchAllPreviousBlocks
  \/ ReadHashesErr
  \/ ReadHashesOk
  \/ ReplaceBegin
  \/ ReplaceEnd
  \/ InitRepairDone
  \/ PollFetchLatest
  \/ ForkChanged
  \/ Dispatch
  \/ PollEnd

SpecMemory == InitMemory /\ [][NextMemory]_vars

\* the poll task with its ticker, and the cancellation of its context; the
\* case of QuitCase is never ready and is no step of the loop
NextSched ==
  \/ InitFetchLatest
  \/ FetchAllPreviousBlocks
  \/ ReadHashesErr
  \/ ReadHashesOk
  \/ ReplaceBegin
  \/ ReplaceEnd
  \/ InitRepairDone
  \/ PollFetchLatest
  \/ ForkChanged
  \/ Dispatch
  \/ TickResult
  \/ Cancel

SpecSched == InitSched /\ [][NextSched]_vars

\* ======================================================= the properties
Bootstrapped == phase = "poll"
Max(a, b) == IF a > b THEN a ELSE b
CountKind(k) == Cardinality({i \in 1..Len(calls) : calls[i].kind = k})

\* the records (n, remote_hash(n)) for n = latest - blocksToSave + 1 .. latest
RemoteWindow(latest) ==
  [i \in 1..blocksToSave |->
     BlockStore(latest - blocksToSave + i, chain[latest - blocksToSave + i])]

\* the remote against a window: an equal hash at a height implies equal
\* hashes at all lower heights of the window
PrefixConsistent(queue) ==
  \A i \in 1..Len(queue) :
    chain[queue[i].Block] = queue[i].Hash =>
      \A j \in 1..(i - 1) : chain[queue[j].Block] = queue[j].Hash

\* the remote reports for the newest record of a window the hash saved in it
TipAgrees(queue) == chain[Last(queue).Block] = Last(queue).Hash

\* fetchAllPreviousBlocks has just returned without an error
RepairSucceeded == pc = "fapb_ret" /\ ~fapbErr

\* C1: after a successful repair (bootstrap or poll cycle) during which the
\* remote did not change and whose remote was prefix-consistent with the
\* window, the window is exactly the remote's records for
\* new_latest - blocks_to_save + 1 .. new_latest, ascending, after a splice
\* and after a wholesale replace alike.
C1_RepairMatchesRemote ==
  (RepairSucceeded /\ stable # "no" /\ PrefixConsistent(preQueue))
    => blocksQueue = RemoteWindow(newLatestBlock)

\* a poll-cycle repair that advanced, kept retained records and matched
C1_Witness ==
  /\ RepairSucceeded /\ phase = "poll" /\ stable # "no"
  /\ PrefixConsistent(preQueue)
  /\ repairOp = "splice" /\ newLatestBlock > preLatest

\* C2: after bootstrap the window always holds exactly blocks_to_save
\* records, whatever the poll cycles did.
C2_WindowLength == Bootstrapped => Len(blocksQueue) = blocksToSave

\* a cycle that saw an advance and a fork has completed
C2_Witness ==
  /\ Bootstrapped /\ pc = "end" /\ ~cycleErr /\ gotNewBlock /\ forked
  /\ blocksToSave > 1

\* C3: after bootstrap the block numbers of the window are contiguous and
\* ascending, after any splice and any wholesale replace.
C3_Contiguous ==
  Bootstrapped =>
    \A i \in 2..Len(blocksQueue) :
      blocksQueue[i].Block = blocksQueue[i - 1].Block + 1

\* a splice after a fork at the tip has just been installed
C3_Witness ==
  /\ Bootstrapped /\ RepairSucceeded /\ repairOp = "splice" /\ forked
  /\ Len(blocksQueue) >= 3

\* C4 as stated: at all moments after bootstrap the lock-free latest
\* number is the block number of the newest record.
C4_LatestIsNewestAlways ==
  Bootstrapped => latestBlockNum = Last(blocksQueue).Block

\* C4 as amended: whenever the exclusive lock is not held, the lock-free
\* latest number is the block number of the newest record.
C4_LatestIsNewestUnlocked ==
  (Bootstrapped /\ ~muWriter) => latestBlockNum = Last(blocksQueue).Block

\* a repair has advanced the latest number and released the lock
C4_Witness ==
  /\ Bootstrapped /\ RepairSucceeded /\ ~muWriter
  /\ latestBlockNum > preLatest

\* C5: a GetLatestBlockData call never observes a partial update: while it
\* holds the shared lock no writer is inside replaceBlocksQueue, the latest
\* number it read is the newest block number of the window, and the
\* records it copied are records of that same window.
C5_ReaderSnapshot ==
  rpc \in {"locked", "copied"} =>
    /\ ~muWriter
    /\ rdLatest = latestBlockNum
    /\ rdLatest = Last(blocksQueue).Block
    /\ \A i \in 1..Len(rdRecords) :
         \E k \in 1..Len(blocksQueue) : blocksQueue[k] = rdRecords[i]

\* the reader holds two copied records while the poll task waits to replace
C5_Witness ==
  /\ rpc = "copied" /\ ~rdErr /\ Len(rdRecords) = 2
  /\ pc = "replace" /\ newLatestBlock > latestBlockNum

\* C6: latest_number() never decreases, whatever the remote reports.
C6_LatestNeverDecreases == [][latestBlockNum' >= latestBlockNum]_vars

\* the remote reported a latest below the tracker's, the fork check saw a
\* mismatch, and the repair rejected the request
C6_Witness ==
  /\ Bootstrapped /\ pc = "fapb_ret" /\ fapbErr /\ repairOp = "rejected"
  /\ newLatestBlock < latestBlockNum /\ forked

\* the counts of C7: max(0, new_latest - prev_latest) new-block callbacks,
\* at most one fork callback
CallbackCounts ==
  /\ CountKind("new") = Max(0, newLatestBlock - preLatest)
  /\ CountKind("fork") <= 1

\* C7 as stated: the counts hold in every poll cycle that fetched a latest
\* number.
C7_CountsEveryCycle ==
  (Bootstrapped /\ pc = "end" /\ newLatestBlock # NoBlock) => CallbackCounts

\* C7 as amended: the counts hold in every poll cycle that ends without an
\* error.
C7_CountsSuccessfulCycle ==
  (Bootstrapped /\ pc = "end" /\ ~cycleErr) => CallbackCounts

\* a catch-up of two blocks or more has completed
C7_Witness ==
  /\ Bootstrapped /\ pc = "end" /\ ~cycleErr
  /\ newLatestBlock - preLatest >= 2 /\ Len(calls) >= 2

\* C8: the callback trace of a successful cycle is the new-block callbacks
\* for prev_latest + 1 .. new_latest in ascending order, each with the hash
\* of the newest record after the repair, then the fork callback once if
\* forked.
C8_CallbackTrace ==
  (Bootstrapped /\ pc = "end" /\ ~cycleErr) =>
    calls = [i \in 1..Max(0, newLatestBlock - preLatest) |->
               NewCall(preLatest + i, Last(blocksQueue).Hash)]
            \o (IF forked THEN <<ForkCall(newLatestBlock)>> ELSE <<>>)

\* a cycle with two new-block callbacks followed by the fork callback
C8_Witness ==
  /\ Bootstrapped /\ pc = "end" /\ ~cycleErr /\ forked
  /\ newLatestBlock - preLatest >= 2
  /\ Len(calls) = newLatestBlock - preLatest + 1

\* C9: a poll cycle that ends in an error leaves the window and the latest
\* number as they were and invokes no callback; no record of a partially
\* filled candidate array is ever in the window.
C9_FailedCycleNoEffect ==
  /\ (Bootstrapped /\ pc = "end" /\ cycleErr) =>
       /\ blocksQueue = preQueue
       /\ latestBlockNum = preLatest
       /\ calls = <<>>
  /\ \A i \in 1..Len(blocksQueue) : blocksQueue[i].Hash \in Hashes

\* the backward scan failed after it had fetched at least one hash
C9_Witness ==
  /\ Bootstrapped /\ pc = "end" /\ cycleErr
  /\ repairOp = "aborted" /\ repairFetches >= 1

\* C10: idempotence.  A poll cycle, and a repair with new_latest equal to
\* the current latest, run against a remote that did not change meanwhile
\* and still reports the saved latest number and the saved hash of the
\* newest record, leaves the window and the latest number as they were
\* and invokes no callback.
C10_Idempotent ==
  /\ (Bootstrapped /\ pc = "end" /\ stable = "cycle"
        /\ newLatestBlock = preLatest /\ TipAgrees(preQueue)) =>
       /\ blocksQueue = preQueue
       /\ latestBlockNum = preLatest
       /\ calls = <<>>
  /\ (Bootstrapped /\ RepairSucceeded /\ stable # "no"
        /\ newLatestBlock = preLatest /\ TipAgrees(preQueue)) =>
       /\ blocksQueue = preQueue
       /\ latestBlockNum = preLatest
       /\ calls = <<>>

\* a repair with new_latest equal to the current latest has run against an
\* unchanged remote
C10_Witness ==
  /\ Bootstrapped /\ RepairSucceeded /\ stable = "repair"
  /\ newLatestBlock = preLatest /\ TipAgrees(preQueue)
  /\ repairOp \in {"splice", "replace"}

\* C11: round trip of the range query.  In any state after bootstrap, for
\* every block number b with earliest <= b <= latest, the call
\* GetLatestBlockData(b, b, NOT_APPLICABLE) succeeds and returns the latest
\* number with exactly one record, the window's record of block b.
C11_RoundTrip ==
  (/\ rpc = "copied" /\ rdFrom = rdTo /\ rdFrom >= 0
   /\ blocksQueue[1].Block <= rdFrom /\ rdFrom <= latestBlockNum) =>
    /\ ~rdErr
    /\ rdLatest = latestBlockNum
    /\ Len(rdRecords) = 1
    /\ rdRecords[1].Block = rdFrom
    /\ \E k \in 1..Len(blocksQueue) : blocksQueue[k] = rdRecords[1]

\* the oldest record of a window of several records was asked for
C11_Witness ==
  /\ rpc = "copied" /\ ~rdErr /\ rdFrom = rdTo
  /\ rdFrom = blocksQueue[1].Block /\ rdFrom < latestBlockNum

\* C13: bootstrap.  Each of the two stages (latest-number fetch, repair) is
\* attempted once and retried at most initRetriesCount = 4 times; construction
\* fails only when the fifth attempt of a stage has failed, and then no poll
\* task is started; when the repair stage succeeds the window holds
\* blocksToSave records ending at the fetched latest number, the latest number
\* equals it, and no callback has been invoked.
C13_Bootstrap ==
  /\ retries <= initRetriesCount
  /\ (pc = "failed") => (phase = "init" /\ retries = initRetriesCount)
  /\ (phase = "init") => (calls = <<>>)
  /\ (phase = "init" /\ pc = "fapb_ret" /\ ~fapbErr) =>
       /\ Len(blocksQueue) = blocksToSave
       /\ Last(blocksQueue).Block = newLatestBlock
       /\ latestBlockNum = newLatestBlock

\* the repair stage succeeded at its last retry
C13_Witness ==
  /\ phase = "init" /\ pc = "fapb_ret" /\ ~fapbErr
  /\ retries = initRetriesCount /\ blocksToSave >= 2

\* the poll task is at a remote call: the latest-number fetch of bootstrap
\* or of a cycle, the hash fetch of the fork check, a hash fetch of the scan
RemoteCallInProgress == pc \in {"init_latest", "tick", "forkcheck", "readHashes"}

\* C14: during the backward scan of a repair the poll task does not hold the
\* shared window lock while a remote hash fetch is in progress.
C14_SharedReleasedDuringFetch ==
  (pc = "readHashes") => ("poll" \notin muReaders)

\* C15: the poll task never holds the exclusive window lock while a remote
\* call is in progress, in bootstrap, fork detection and repair alike; the
\* exclusive lock is held only while the window and the latest number are
\* rewritten.
C15_ExclusiveOnlyWhileRewriting ==
  /\ muWriter => (pc = "replacing")
  /\ RemoteCallInProgress => ~muWriter

\* the exclusive lock is held in a repair of a poll cycle
C15_Witness ==
  /\ muWriter /\ pc = "replacing" /\ Bootstrapped /\ stable = "cycle"

\* the poll cycle in progress got from the remote a latest number below the
\* tracker's own
StaleCycle ==
  /\ phase = "poll" /\ pc # "tick"
  /\ newLatestBlock # NoBlock /\ newLatestBlock < preLatest

\* C16: in a poll cycle where the remote reports new_latest < latest_number(),
\* the repairer, if invoked, rejects the request with an error; the window and
\* the latest number are unchanged and neither callback is invoked, even when
\* the fork check reported a hash mismatch.
C16_StaleLatestRejected ==
  StaleCycle =>
    /\ blocksQueue = preQueue
    /\ latestBlockNum = preLatest
    /\ calls = <<>>
    /\ ~gotNewBlock
    /\ pc \in {"forkcheck", "fapb", "fapb_ret", "end"}
    /\ repairOp \in {"none", "rejected"}
    /\ (pc = "fapb_ret") => (fapbErr /\ repairOp = "rejected")
    /\ (pc = "end" /\ forked) => (cycleErr /\ repairOp = "rejected")

\* the fork check reported a mismatch and the repairer rejected the request
C16_Witness ==
  /\ StaleCycle /\ pc = "end" /\ forked /\ repairOp = "rejected"

\* C17: in every poll cycle whose fork-check fetch succeeds, forked is true
\* exactly when the hash the remote reports for the block number of the
\* window's saved latest record differs from that record's saved hash, also
\* when new_latest > latest_number(); one cycle can report both an advance
\* and a fork.
C17_ForkAgainstSavedLatest ==
  [][(pc = "forkcheck" /\ pc' # "forkcheck" /\ ~cycleErr') =>
       /\ Last(blocksQueue).Block \in Heights
       /\ forked' = (chain[Last(blocksQueue).Block] # Last(blocksQueue).Hash)
       /\ pc' = IF gotNewBlock \/ forked' THEN "fapb" ELSE "end"]_vars

\* a cycle that reports an advance and a fork, the new latest block itself
\* being one the tracker has never saved
C17_Witness ==
  /\ phase = "poll" /\ pc = "fapb" /\ gotNewBlock /\ forked
  /\ newLatestBlock > latestBlockNum

\* the hash fetched at step i of the scan in progress equals the hash of a
\* retained record of the same block number at a window index in (0, len-1]
FetchedMatchesRetained(i) ==
  \E k \in 2..Len(blocksQueue) :
    /\ blocksQueue[k].Block = newLatestBlock - i
    /\ blocksQueue[k].Hash = newBlocksQueue[blocksToSave - i].Hash

\* C20: a successful repair performs exactly i+1 remote hash fetches, where
\* new_latest - i is the newest block number whose fetched hash equals the
\* retained hash at a window index in (0, len-1], and exactly blocksToSave
\* fetches when there is no such block or when read_diff >= len; an advance
\* by d < blocksToSave without a fork (blocksToSave >= 2) fetches d+1 hashes,
\* and the oldest retained record (index 0) is never the overlap anchor.
C20_FetchCount ==
  /\ (pc = "replace") =>
       IF newQueueStartIndex > 0
         THEN /\ repairFetches = idx + 1
              /\ idx < blocksToSave
              /\ blocksQueueEndIndex \in 2..Len(blocksQueue)
              /\ blocksQueue[blocksQueueEndIndex].Block = newLatestBlock - idx
              /\ \A i \in 0..(idx - 1) : ~FetchedMatchesRetained(i)
         ELSE /\ repairFetches = blocksToSave
              /\ idx = blocksToSave
              /\ \A i \in 0..(blocksToSave - 1) : ~FetchedMatchesRetained(i)
  /\ (pc = "replace" /\ newLatestBlock - latestBlockNum >= Len(blocksQueue)) =>
       (newQueueStartIndex = 0 /\ repairFetches = blocksToSave)
  /\ (/\ Bootstrapped /\ RepairSucceeded /\ stable # "no" /\ TipAgrees(preQueue)
      /\ blocksToSave >= 2
      /\ newLatestBlock > preLatest /\ newLatestBlock - preLatest < blocksToSave) =>
       (repairFetches = newLatestBlock - preLatest + 1 /\ repairOp = "splice")

\* a scan has fetched for the oldest retained record the very hash it holds
\* and has gone on to the end without an anchor
C20_Witness ==
  /\ Bootstrapped /\ pc = "replace" /\ blocksToSave >= 2
  /\ newQueueStartIndex = 0 /\ repairFetches = blocksToSave
  /\ \E j \in 1..Len(newBlocksQueue) : newBlocksQueue[j] = blocksQueue[1]

\* C12: once the cancellation signal has fired the poll task exits at the
\* next tick or during a remote fetch and runs no further poll cycle: no
\* tick that follows the cancellation starts a cycle.
C12_NoCycleAfterCancel ==
  [][(cancelled /\ phase = "poll" /\ pc = "tick") => (pc' \in {"tick", "exited"})]_vars

Min(a, b) == IF a < b THEN a ELSE b

\* C18 as stated: after any sequence of poll cycles the tick period equals
\* min(tick * 2^min(k,10), 10 minutes), k the number of consecutive failed
\* cycles since the last successful one, and never exceeds 10 minutes.
C18_PeriodAlways ==
  Bootstrapped =>
    /\ tickerPeriod = Min(tickerTime * (2 ^ Min(fetchFails, 10)), BACKOFF_MAX_TIME)
    /\ tickerPeriod <= BACKOFF_MAX_TIME

\* C18, amended: the period is the base tick until the first failed cycle;
\* from then on it is min(tick * 2^min(k,10), 10 minutes), k the number of
\* consecutive failed cycles since the last successful one, after failures
\* and after the success that follows them alike.
C18_PeriodAfterUpdate ==
  Bootstrapped =>
    /\ ~tickerUpdated => (tickerPeriod = tickerTime /\ fetchFails = 0)
    /\ tickerUpdated =>
         /\ tickerPeriod = Min(tickerTime * (2 ^ Min(fetchFails, 10)), BACKOFF_MAX_TIME)
         /\ tickerPeriod <= BACKOFF_MAX_TIME

\* more than ten consecutive failures with a base tick whose backoff the
\* ten minutes do not cap
C18_Witness ==
  /\ Bootstrapped /\ pc = "tick" /\ fetchFails = 11
  /\ tickerPeriod = tickerTime * 1024 /\ tickerPeriod < BACKOFF_MAX_TIME

\* C19: across any sequence of poll cycles after bootstrap, the block numbers
\* passed to the new-block callback, concatenated over all cycles, are
\* L0+1, ..., latest_number() in ascending order, without gap or repetition:
\* every cycle continues from the last number passed on and ends at the
\* latest number, and between cycles the two are equal.
C19_NoGapAcrossCycles ==
  Bootstrapped =>
    /\ (pc = "end") =>
         newBlockNumbers(calls) =
           [i \in 1..(latestBlockNum - notified) |-> notified + i]
    /\ (pc \in {"tick", "forkcheck", "fapb", "readHashes", "replace"}) =>
         (notified = latestBlockNum /\ calls = <<>>)
    /\ notified <= latestBlockNum

\* a cycle that caught up over several blocks, after an earlier cycle that
\* had advanced
C19_Witness ==
  /\ Bootstrapped /\ pc = "end" /\ Len(newBlockNumbers(calls)) >= 2
  /\ notified > 0 /\ forked

\* the index of the window that step idx of the scan in progress looks at
ScanIndex == Len(blocksQueue) - 1 + (newLatestBlock - latestBlockNum) - idx

\* C21: after bootstrap the two diagnostic branches of the overlap test are
\* unreachable in any repair: whenever the existing index is in (0, len-1]
\* the record at that index has block number new_latest - i, and both
\* splice-policy conditions (overwrite >= blocks_to_save - 1 - i and
\* read_diff <= overwrite) hold, so whatever hash the fetch of the step
\* returns, neither alarm is raised.
C21_NoDiagnosticBranch ==
  (Bootstrapped /\ pc = "readHashes") =>
    /\ \A h \in Hashes :
         overlapAlarm(blocksQueue, blocksToSave, newLatestBlock - latestBlockNum,
                      idx, newLatestBlock - idx, h) = "none"
    /\ (/\ newLatestBlock - latestBlockNum < Len(blocksQueue)
        /\ ScanIndex > 0 /\ ScanIndex <= Len(blocksQueue) - 1) =>
         /\ blocksQueue[ScanIndex + 1].Block = newLatestBlock - idx
         /\ ScanIndex + 1 >= blocksToSave - 1 - idx
         /\ newLatestBlock - latestBlockNum <= ScanIndex + 1

\* a step of a scan after an advance is about to fetch the hash that the
\* record at its index holds
C21_Witness ==
  /\ Bootstrapped /\ pc = "readHashes" /\ idx >= 1
  /\ newLatestBlock > latestBlockNum
  /\ ScanIndex > 0 /\ ScanIndex <= Len(blocksQueue) - 1
  /\ blocksQueue[ScanIndex + 1].Hash = chain[newLatestBlock - idx]

\* C22: when server_block_memory >= blocks_to_save (the remote's latest
\* number being non-negative), the pre-rejection block_number <
\* latest_number() - server_block_memory fires for no hash fetch of
\* bootstrap, of the fork detector or of the repairer, whatever the size of
\* the advance.
C22_NoTooEarlyRejection ==
  (serverBlockMemory >= blocksToSave /\ newLatestBlock >= 0) =>
    /\ (pc = "readHashes") =>
         ~tooEarlyBlock(newLatestBlock - idx, latestBlockNum, serverBlockMemory)
    /\ (pc = "forkcheck") =>
         ~tooEarlyBlock(forkCheckBlockNum(newLatestBlock, latestBlockNum,
                                          getLatestBlockUnsafe(blocksQueue)),
                        latestBlockNum, serverBlockMemory)

\* the last step of a scan that followed a jump of the remote by more than
\* the window, with the smallest server memory the claim allows
C22_Witness ==
  /\ Bootstrapped /\ pc = "readHashes"
  /\ serverBlockMemory = blocksToSave /\ blocksToSave >= 2
  /\ idx = blocksToSave - 1
  /\ newLatestBlock - latestBlockNum >= 2

====
